---- MODULE Spec2Model ----
(***************************************************************************)
(* The user-registration endpoint of k-hostel, POST /api/auth/register.    *)
(*                                                                         *)
(* The repository holds two variants of the handler:                       *)
(*   "supabase"  src/unnamed/part_000: Supabase client, verification code  *)
(*               and verification email after the insert;                  *)
(*   "drizzle"   src/app/api/auth/register/route.ts: drizzle client, a     *)
(*               connection-test query before the lookup, no verification  *)
(*               code and no email.                                        *)
(* One of them is deployed (variant); requests run concurrently against    *)
(* one users table.  A handler is an async function: between two awaits    *)
(* its code runs without interleaving, so every action below is "the       *)
(* awaited call completes, then the handler runs up to its next await".    *)
(*                                                                         *)
(* Strings whose content the code inspects are modelled by what the code   *)
(* inspects: an error message is the set of the substrings it contains     *)
(* among those the catch block searches for; the verification code is the  *)
(* sequence of its characters.  Columns that are copied from the payload   *)
(* and read by nothing else (last_name, phone, school_id,                  *)
(* business_reg_number, address, profile_image_url, terms_accepted_at)     *)
(* are left out of the records, as are the console output and the         *)
(* development-only error field of the generic 500 response.               *)
(***************************************************************************)
EXTENDS Integers, Sequences, FiniteSets, TLC

VARIABLES
    variant,  \* the handler deployed: "supabase" (part_000) or "drizzle" (route.ts)
    env,      \* process.env: the names of the variables that are set
    users,    \* the rows of the users table
    nextId,   \* the id the table gives the next inserted row
    outbox,   \* the emails sendEmail has accepted
    req       \* the invocations of POST

vars == <<variant, env, users, nextId, outbox, req>>

(***************************************************************************)
(* Bounds and input sets                                                   *)
(***************************************************************************)
\* Number of requests that may be in flight together.
NumReq == 2

ReqIds == 1..NumReq

Variants == {"supabase", "drizzle"}

EnvNames == {"DATABASE_URL", "SUPABASE_URL", "SUPABASE_ANON_KEY"}

Roles == {"agent", "buyer"}

\* Math.random() in millionths: the draw k stands for the value k / 10^6.
RandomDraws == {0, 999999}

\* Date.now() in milliseconds.
Times == {0, 60000}

(***************************************************************************)
(* Values                                                                  *)
(***************************************************************************)
NoData == [email |-> "", password |-> "", firstName |-> "", role |-> "",
           termsAccepted |-> FALSE]

NoUser == [id |-> 0]

NoError == [name |-> "", message |-> {}, issues |-> {}]

NoResponse == [status |-> 0, message |-> "", user |-> NoUser, details |-> {}]

\* A request body: text that is JSON or not, and the object it parses to.
\* The payload of the spec's scenario.
BuyerBody ==
    [json |-> TRUE, email |-> "a@b.com", password |-> "Secret123!",
     firstName |-> "A", role |-> "buyer", termsAccepted |-> TRUE]

\* An agent's payload, with another email.
AgentBody ==
    [json |-> TRUE, email |-> "c@d.com", password |-> "Secret123!",
     firstName |-> "C", role |-> "agent", termsAccepted |-> TRUE]

ValidBodies == {BuyerBody, AgentBody}

\* The payload of the spec's scenario with its email left out.
MissingEmailBody ==
    [json |-> TRUE, email |-> "", password |-> "Secret123!",
     firstName |-> "A", role |-> "buyer", termsAccepted |-> TRUE]

MalformedBody ==
    [json |-> FALSE, email |-> "", password |-> "",
     firstName |-> "", role |-> "", termsAccepted |-> FALSE]

Bodies == ValidBodies \cup {MissingEmailBody, MalformedBody}

(***************************************************************************)
(* Errors.  message is the set of the searched substrings it contains.     *)
(***************************************************************************)
\* "connect ECONNREFUSED 127.0.0.1:5432"
ConnRefused == [name |-> "Error", message |-> {"connect"}, issues |-> {}]

\* "getaddrinfo ENOTFOUND db.example.supabase.co"
DnsNotFound == [name |-> "Error", message |-> {"ENOTFOUND"}, issues |-> {}]

\* 'duplicate key value violates unique constraint "users_email_unique"'
UniqueViolation ==
    [name |-> "Error", message |-> {"duplicate key", "unique constraint"},
     issues |-> {}]

\* 'relation "users" does not exist'
RelationMissing ==
    [name |-> "Error", message |-> {"relation", "does not exist"},
     issues |-> {}]

\* "canceling statement due to statement timeout"
StatementTimeout == [name |-> "Error", message |-> {}, issues |-> {}]

\* "Unexpected token } in JSON at position 12", from request.json()
JsonSyntaxError == [name |-> "SyntaxError", message |-> {}, issues |-> {}]

\* What a storage call may fail with whatever the table holds.
StorageErrors == {ConnRefused, DnsNotFound, RelationMissing, StatementTimeout}

\* What the mail helper may throw.
MailErrors == {StatementTimeout}

Includes(message, needle) == needle \in message

(***************************************************************************)
(* Collaborators and pure steps                                            *)
(***************************************************************************)
\* registerUserSchema.parse: the issues of a parsed body (empty: it passes).
SchemaIssues(body) ==
    (IF body.email = "" THEN {"email: Required"} ELSE {}) \cup
    (IF body.password = "" THEN {"password: Required"} ELSE {}) \cup
    (IF body.firstName = "" THEN {"firstName: Required"} ELSE {}) \cup
    (IF body.role \notin Roles THEN {"role: Invalid enum value"} ELSE {})

ZodError(issues) == [name |-> "ZodError", message |-> {}, issues |-> issues]

ValidatedData(body) ==
    [email |-> body.email, password |-> body.password,
     firstName |-> body.firstName, role |-> body.role,
     termsAccepted |-> body.termsAccepted]

saltRounds == 12

\* bcrypt.hash(password, rounds): "$2a$<rounds>$<salt and digest>".
BcryptHash(password, rounds) ==
    "$2a$" \o ToString(rounds) \o "$digest(" \o password \o ")"

\* The insert given the password itself.
PasswordHashPlain(data) == data.password

\* const passwordHash = await bcrypt.hash(validatedData.password, saltRounds)
PasswordHash(data) == BcryptHash(data.password, saltRounds)

\* Every role verified at once.
VerifiedStatusAlways(role) == TRUE

\* Agents need verification.
VerifiedStatus(role) == IF role = "agent" THEN FALSE ELSE TRUE

\* All users need email verification.
EmailVerified == FALSE

DigitChar(d) ==
    CASE d = 0 -> "0" [] d = 1 -> "1" [] d = 2 -> "2" [] d = 3 -> "3"
      [] d = 4 -> "4" [] d = 5 -> "5" [] d = 6 -> "6" [] d = 7 -> "7"
      [] d = 8 -> "8" [] d = 9 -> "9"

RECURSIVE NumberToString(_)
\* Number.prototype.toString() of a non-negative integer, as its characters.
NumberToString(n) ==
    IF n < 10 THEN <<DigitChar(n)>>
    ELSE Append(NumberToString(n \div 10), DigitChar(n % 10))

\* Math.floor(Math.random() * 1000000): the draw spread over 0..999999.
VerificationNumberUniform(k) == k

\* Math.floor(100000 + Math.random() * 900000) for the draw k / 10^6:
\* (k / 10^6) * 900000 = k * 9 / 10.
VerificationNumber(k) == 100000 + (k * 9) \div 10

VerificationCode(k) == NumberToString(VerificationNumber(k))

\* new Date(Date.now() + 15 * 60 * 1000), in milliseconds.
ExpiresAt(now) == now + 15 * 60 * 1000

\* Date.prototype.toISOString(): the instant to the millisecond.
ToISOString(ms) == <<ms>>

\* SQL NULL of a text or timestamp column.
Null == <<>>

\* The row db.users.create sends (part_000), with the id the table gives it
\* and the verification columns at their NULL default.
SupabaseRow(id, data, passwordHash) ==
    [id |-> id,
     email |-> data.email,
     password_hash |-> passwordHash,
     first_name |-> data.firstName,
     role |-> data.role,
     terms_accepted |-> data.termsAccepted,
     verified_status |-> VerifiedStatus(data.role),
     email_verified |-> EmailVerified,
     verification_code |-> Null,
     verification_code_expires |-> Null]

\* The users table's default of the email_verified column (lib/schema).
SchemaDefaultEmailVerified == FALSE

\* The row db.insert(users).values(...).returning() yields (route.ts).
DrizzleRow(id, data, passwordHash) ==
    [id |-> id,
     email |-> data.email,
     passwordHash |-> passwordHash,
     firstName |-> data.firstName,
     role |-> data.role,
     verifiedStatus |-> VerifiedStatus(data.role),
     emailVerified |-> SchemaDefaultEmailVerified]

NewRow(v, id, data, passwordHash) ==
    IF v = "supabase" THEN SupabaseRow(id, data, passwordHash)
    ELSE DrizzleRow(id, data, passwordHash)

\* The name of the password-hash field of a row of the variant.
HashField(v) == IF v = "supabase" THEN "password_hash" ELSE "passwordHash"

\* const { password_hash: _, ...userWithoutPassword } = newUser
UserWithoutPassword(v, user) ==
    [f \in DOMAIN user \ {HashField(v)} |-> user[f]]

Json(status, message, user, details) ==
    [status |-> status, message |-> message, user |-> user,
     details |-> details]

\* The environment variables the handler of the variant checks.
RequiredEnv(v) ==
    IF v = "supabase" THEN {"SUPABASE_URL", "SUPABASE_ANON_KEY"}
    ELSE {"DATABASE_URL", "SUPABASE_URL"}

\* The environment checks with the second one left out.
ConfigCheckFirstOnly(v, e) ==
    IF v = "supabase" THEN
        IF "SUPABASE_URL" \notin e
        THEN Json(500, "Supabase configuration missing", NoUser, {})
        ELSE NoResponse
    ELSE
        IF "DATABASE_URL" \notin e
        THEN Json(500, "Database configuration missing", NoUser, {})
        ELSE NoResponse

\* The environment checks at the head of the handler; NoResponse: passed.
ConfigCheck(v, e) ==
    IF v = "supabase" THEN
        IF "SUPABASE_URL" \notin e
        THEN Json(500, "Supabase configuration missing", NoUser, {})
        ELSE IF "SUPABASE_ANON_KEY" \notin e
        THEN Json(500, "Supabase anon key missing", NoUser, {})
        ELSE NoResponse
    ELSE
        IF "DATABASE_URL" \notin e
        THEN Json(500, "Database configuration missing", NoUser, {})
        ELSE IF "SUPABASE_URL" \notin e
        THEN Json(500, "Supabase configuration missing", NoUser, {})
        ELSE NoResponse

\* The catch block without its constraint-error branch.
CatchBlockNoConstraint(error) ==
    IF error.name = "ZodError"
    THEN Json(400, "Invalid input data", NoUser, error.issues)
    ELSE IF Includes(error.message, "connect")
            \/ Includes(error.message, "ENOTFOUND")
    THEN Json(500, "Database connection failed. Please check your DATABASE_URL.",
              NoUser, {})
    ELSE IF Includes(error.message, "relation")
            /\ Includes(error.message, "does not exist")
    THEN Json(500, "Database tables not found. Please run the SQL schema in Supabase first.",
              NoUser, {})
    ELSE Json(500, "Internal server error", NoUser, {})

\* The catch block without its validation-error branch.
CatchBlockNoZod(error) ==
    IF Includes(error.message, "connect")
       \/ Includes(error.message, "ENOTFOUND")
    THEN Json(500, "Database connection failed. Please check your DATABASE_URL.",
              NoUser, {})
    ELSE IF Includes(error.message, "duplicate key")
            \/ Includes(error.message, "unique constraint")
    THEN Json(400, "Email already exists", NoUser, {})
    ELSE IF Includes(error.message, "relation")
            /\ Includes(error.message, "does not exist")
    THEN Json(500, "Database tables not found. Please run the SQL schema in Supabase first.",
              NoUser, {})
    ELSE Json(500, "Internal server error", NoUser, {})

\* The catch block: the response for a caught error.
CatchBlock(error) ==
    IF error.name = "ZodError"
    THEN Json(400, "Invalid input data", NoUser, error.issues)
    ELSE IF Includes(error.message, "connect")
            \/ Includes(error.message, "ENOTFOUND")
    THEN Json(500, "Database connection failed. Please check your DATABASE_URL.",
              NoUser, {})
    ELSE IF Includes(error.message, "duplicate key")
            \/ Includes(error.message, "unique constraint")
    THEN Json(400, "Email already exists", NoUser, {})
    ELSE IF Includes(error.message, "relation")
            /\ Includes(error.message, "does not exist")
    THEN Json(500, "Database tables not found. Please run the SQL schema in Supabase first.",
              NoUser, {})
    ELSE Json(500, "Internal server error", NoUser, {})

\* throw new Error(`Database connection test failed: ${dbError.message}`)
ConnectionTestError(dbError) ==
    [name |-> "Error", message |-> dbError.message \cup {"connect"},
     issues |-> {}]

AlreadyExists ==
    Json(400, "User with this email already exists", NoUser, {})

Created(v, user) ==
    Json(201,
         IF v = "supabase"
         THEN "Registration successful! Please check your email to verify your account before signing in."
         ELSE "Registration successful",
         UserWithoutPassword(v, user), {})

(***************************************************************************)
(* State                                                                   *)
(***************************************************************************)
\* One invocation of POST: its position, its locals, the calls it has made
\* (calls), whether the lookup found a user (found), the error a collaborator
\* raised (raised, in the last of calls), the error the catch block received
\* (caught), and its response.
IdleRequest ==
    [pc |-> "idle", body |-> MalformedBody, data |-> NoData,
     found |-> FALSE, passwordHash |-> "", newUser |-> NoUser,
     draw |-> -1, issuedAt |-> -1,
     verificationCode |-> Null, expiresAt |-> -1,
     calls |-> <<>>, raised |-> NoError,
     caught |-> NoError, response |-> NoResponse]

Init ==
    /\ variant \in Variants
    /\ env \in {EnvNames \ missing : missing \in SUBSET RequiredEnv(variant)}
    /\ users = {}
    /\ nextId = 1
    /\ outbox = {}
    /\ req = [i \in ReqIds |-> IdleRequest]

\* The handler returns: its locals go out of scope.  What stays is the
\* request (body), the record of what it did (found, calls, raised, caught)
\* and the response.
Finished(r) ==
    [IdleRequest EXCEPT !.pc = "done", !.body = r.body, !.found = r.found,
                        !.calls = r.calls]

\* return NextResponse.json(...)
Return(r, response) == [Finished(r) EXCEPT !.response = response]

\* A collaborator's call throws error; the catch block receives thrown (the
\* error itself, unless an inner catch rethrew it) and returns its response.
Throw(r, error, thrown) ==
    [Finished(r) EXCEPT !.raised = error, !.caught = thrown,
                        !.response = CatchBlock(thrown)]

Called(r, call) == [r EXCEPT !.calls = Append(@, call)]

RowsByEmail(email) == {u \in users : u.email = email}

(***************************************************************************)
(* The handler, one action per awaited call                                *)
(***************************************************************************)
\* A request arrives with its body; the environment is checked, then
\* request.json() is awaited.
Receive(i) ==
    /\ req[i].pc = "idle"
    /\ IF i = 1 THEN TRUE ELSE req[i - 1].pc # "idle"
    /\ \E body \in Bodies :
          LET r == [req[i] EXCEPT !.body = body] IN
          req' = [req EXCEPT ![i] =
                    IF ConfigCheck(variant, env) # NoResponse
                    THEN Return(r, ConfigCheck(variant, env))
                    ELSE [r EXCEPT !.pc = "json"]]
    /\ UNCHANGED <<variant, env, users, nextId, outbox>>

\* request.json() settles, then registerUserSchema.parse(body); on success
\* the first query is issued.
ParseBody(i) ==
    /\ req[i].pc = "json"
    /\ LET r == Called(req[i], "request.json") IN
       req' = [req EXCEPT ![i] =
                 IF ~r.body.json
                 THEN Throw(r, JsonSyntaxError, JsonSyntaxError)
                 ELSE LET p == Called(r, "schema.parse") IN
                      IF SchemaIssues(p.body) # {}
                      THEN Throw(p,
                                 ZodError(SchemaIssues(p.body)),
                                 ZodError(SchemaIssues(p.body)))
                      ELSE [p EXCEPT !.data = ValidatedData(p.body),
                                     !.pc = IF variant = "drizzle"
                                            THEN "test" ELSE "lookup"]]
    /\ UNCHANGED <<variant, env, users, nextId, outbox>>

\* route.ts only: await db.select().from(users).limit(1), in its own try.
ConnectionTest(i) ==
    /\ req[i].pc = "test"
    /\ LET r == Called(req[i], "db.select") IN
       \/ req' = [req EXCEPT ![i] = [r EXCEPT !.pc = "lookup"]]
       \/ \E e \in StorageErrors :
             req' = [req EXCEPT ![i] =
                       Throw(r, e, ConnectionTestError(e))]
    /\ UNCHANGED <<variant, env, users, nextId, outbox>>

\* The lookup without its early return.
AfterLookupNoReturn(r, rows) ==
    [r EXCEPT !.found = rows # {}, !.pc = "hash"]

\* if (existingUser) return 400; otherwise bcrypt.hash is awaited.
AfterLookup(r, rows) ==
    IF rows # {}
    THEN Return([r EXCEPT !.found = TRUE], AlreadyExists)
    ELSE [r EXCEPT !.pc = "hash"]

\* The lookup by email settles; an existing user ends the request.
FindByEmail(i) ==
    /\ req[i].pc = "lookup"
    /\ LET r == Called(req[i], "findByEmail") IN
       \/ req' = [req EXCEPT ![i] = AfterLookup(r, RowsByEmail(r.data.email))]
       \/ \E e \in StorageErrors :
             req' = [req EXCEPT ![i] = Throw(r, e, e)]
    /\ UNCHANGED <<variant, env, users, nextId, outbox>>

\* bcrypt.hash settles; the insert is issued with the hash.
HashPassword(i) ==
    /\ req[i].pc = "hash"
    /\ req' = [req EXCEPT ![i] =
                 [Called(req[i], "bcrypt.hash") EXCEPT
                    !.passwordHash = PasswordHash(req[i].data),
                    !.pc = "create"]]
    /\ UNCHANGED <<variant, env, users, nextId, outbox>>

\* After the insert: part_000 draws the verification code and its expiry and
\* issues the update; route.ts returns 201.
AfterCreate(r, row, k, now) ==
    IF variant = "supabase"
    THEN [r EXCEPT !.newUser = row, !.draw = k, !.issuedAt = now,
                   !.verificationCode = VerificationCode(k),
                   !.expiresAt = ExpiresAt(now), !.pc = "update"]
    ELSE Return([r EXCEPT !.newUser = row], Created(variant, row))

\* The insert settles.  The table holds one row per email: an insert of a
\* present email is rejected by the unique constraint.
CreateUser(i) ==
    /\ req[i].pc = "create"
    /\ LET r == Called(req[i], "create")
           row == NewRow(variant, nextId, r.data, r.passwordHash) IN
       \/ /\ RowsByEmail(r.data.email) = {}
          /\ users' = users \cup {row}
          /\ nextId' = nextId + 1
          /\ \E k \in RandomDraws, now \in Times :
                req' = [req EXCEPT ![i] = AfterCreate(r, row, k, now)]
       \/ /\ RowsByEmail(r.data.email) # {}
          /\ req' = [req EXCEPT ![i] =
                       Throw(r, UniqueViolation, UniqueViolation)]
          /\ UNCHANGED <<users, nextId>>
       \/ /\ \E e \in StorageErrors :
                req' = [req EXCEPT ![i] = Throw(r, e, e)]
          /\ UNCHANGED <<users, nextId>>
    /\ UNCHANGED <<variant, env, outbox>>

\* The update without its .eq('id', id) filter.
UpdateRowsAll(id, code, expires) ==
    {[u EXCEPT !.verification_code = code,
               !.verification_code_expires = expires] : u \in users}

\* .update({verification_code, verification_code_expires}).eq('id', id)
UpdateRows(id, code, expires) ==
    {IF u.id = id
     THEN [u EXCEPT !.verification_code = code,
                    !.verification_code_expires = expires]
     ELSE u : u \in users}

\* The update has settled and sendEmail is awaited; expiresAt and the draw
\* are not read again.
AwaitSend(r) ==
    [r EXCEPT !.pc = "send", !.draw = -1, !.issuedAt = -1, !.expiresAt = -1]

\* part_000 only: the update of the verification columns settles, with the
\* rows updated, with an error in its result (logged), or by throwing.
UpdateVerification(i) ==
    /\ req[i].pc = "update"
    /\ LET r == Called(req[i], "update") IN
       \/ /\ users' = UpdateRows(r.newUser.id, r.verificationCode,
                                 ToISOString(r.expiresAt))
          /\ req' = [req EXCEPT ![i] = AwaitSend(r)]
       \/ /\ req' = [req EXCEPT ![i] = AwaitSend(r)]
          /\ UNCHANGED users
       \/ /\ \E e \in StorageErrors :
                req' = [req EXCEPT ![i] = Throw(r, e, e)]
          /\ UNCHANGED users
    /\ UNCHANGED <<variant, env, nextId, outbox>>

\* part_000 only: sendEmail settles with success true or false (logged), or
\* by throwing; then the response is shaped.
SendEmail(i) ==
    /\ req[i].pc = "send"
    /\ LET r == Called(req[i], "sendEmail") IN
       \/ /\ outbox' = outbox \cup
                         {[to |-> r.data.email, code |-> r.verificationCode]}
          /\ req' = [req EXCEPT ![i] =
                       Return(r, Created(variant, r.newUser))]
       \/ /\ req' = [req EXCEPT ![i] = Return(r, Created(variant, r.newUser))]
          /\ UNCHANGED outbox
       \/ /\ \E e \in MailErrors :
                req' = [req EXCEPT ![i] = Throw(r, e, e)]
          /\ UNCHANGED outbox
    /\ UNCHANGED <<variant, env, users, nextId>>

Next ==
    \E i \in ReqIds :
       \/ Receive(i)
       \/ ParseBody(i)
       \/ ConnectionTest(i)
       \/ FindByEmail(i)
       \/ HashPassword(i)
       \/ CreateUser(i)
       \/ UpdateVerification(i)
       \/ SendEmail(i)

Spec == Init /\ [][Next]_vars

(***************************************************************************)
(* Properties                                                              *)
(***************************************************************************)
Range(seq) == {seq[n] : n \in 1..Len(seq)}

Last(seq) == seq[Len(seq)]

IsStorageOrMail(call) ==
    call \in {"db.select", "findByEmail", "create", "update", "sendEmail"}

\* The storage and mail calls a request has made, in order.
Operations(r) == SelectSeq(r.calls, IsStorageOrMail)

\* The request's insert was made and did not throw.
Inserted(r) ==
    /\ "create" \in Range(r.calls)
    /\ ~(Last(r.calls) = "create" /\ r.raised # NoError)

EmailAlreadyExists == Json(400, "Email already exists", NoUser, {})

\* C1: a request whose lookup found a stored user with its email has
\* returned 400 "User with this email already exists", and the lookup is the
\* last call it made: no insert, no update and no email send.
C1_ExistingEmailRejected ==
    \A i \in ReqIds :
       req[i].found =>
          /\ req[i].pc = "done"
          /\ req[i].response.status = 400
          /\ req[i].response.message = "User with this email already exists"
          /\ Last(req[i].calls) = "findByEmail"
          /\ Range(req[i].calls) \cap {"create", "update", "sendEmail"} = {}

C1_Witness ==
    \E i \in ReqIds :
       /\ req[i].found
       /\ req[i].pc = "done"
       /\ \E u \in users : u.email = req[i].body.email

\* C2: whatever the interleaving, the table never holds two rows with one
\* email, at most one request per email has returned 201, and every request
\* whose insert the unique constraint rejected has returned 400 "Email
\* already exists".
C2_UniqueEmailUnderRace ==
    /\ \A u1, u2 \in users : u1.email = u2.email => u1 = u2
    /\ \A i, j \in ReqIds :
          /\ req[i].response.status = 201
          /\ req[j].response.status = 201
          /\ req[i].body.email = req[j].body.email
          => i = j
    /\ \A i \in ReqIds :
          req[i].raised = UniqueViolation =>
             /\ req[i].pc = "done"
             /\ req[i].response = EmailAlreadyExists

C2_Witness ==
    \E i, j \in ReqIds :
       /\ i # j
       /\ req[i].body.email = req[j].body.email
       /\ req[i].response.status = 201
       /\ req[j].raised = UniqueViolation
       /\ req[j].response = EmailAlreadyExists
       /\ ~req[j].found

\* C3: a request that has inserted its user row and has returned, has
\* returned 201, whatever became of the update and of the email send.
C3_CreatedImplies201 ==
    \A i \in ReqIds :
       (req[i].pc = "done" /\ Inserted(req[i])) =>
          req[i].response.status = 201

\* C4: a request whose body the schema rejected has returned 400 with the
\* issues, and parsing and validating are the only calls it made: no lookup,
\* no insert, no update, no email send.
C4_InvalidBodyRejected ==
    \A i \in ReqIds :
       ("schema.parse" \in Range(req[i].calls)
           /\ SchemaIssues(req[i].body) # {}) =>
          /\ req[i].pc = "done"
          /\ req[i].response.status = 400
          /\ req[i].response.details = SchemaIssues(req[i].body)
          /\ req[i].response.details # {}
          /\ req[i].calls = <<"request.json", "schema.parse">>

C4_Witness ==
    \E i \in ReqIds :
       /\ req[i].body = MissingEmailBody
       /\ req[i].pc = "done"
       /\ req[i].response.status = 400
       /\ "email: Required" \in req[i].response.details

\* The response the error classification gives for each kind of error.
ClassifiedResponse(error) ==
    CASE error \in {ConnRefused, DnsNotFound} ->
            Json(500, "Database connection failed. Please check your DATABASE_URL.",
                 NoUser, {})
      [] error = UniqueViolation -> EmailAlreadyExists
      [] error = RelationMissing ->
            Json(500, "Database tables not found. Please run the SQL schema in Supabase first.",
                 NoUser, {})
      [] OTHER -> Json(500, "Internal server error", NoUser, {})

\* C5: the response to an error a storage call raised depends on the kind of
\* the error alone, whichever call raised it: connectivity gives 500
\* "Database connection failed", a unique-constraint violation 400 "Email
\* already exists", a missing relation 500 "Database tables not found", any
\* other error 500 "Internal server error".
C5_ClassifiedByKindAlone ==
    \A i \in ReqIds :
       (req[i].pc = "done"
           /\ req[i].raised \in StorageErrors \cup {UniqueViolation}) =>
          req[i].response = ClassifiedResponse(req[i].raised)

\* The password of the payload registered under an email.
PasswordOf(email) == (CHOOSE b \in ValidBodies : b.email = email).password

HashFieldNames == {"password", "password_hash", "passwordHash"}

TextFieldNames == {"email", "first_name", "firstName", "role"}

\* C6: every stored row's hash is bcrypt's output at cost 12 for its
\* payload's password and is not that password; a request made its insert
\* only after its hash call; and the user of a 201 response has no
\* password or hash field and carries the password in no text field.
C6_PasswordHashedAndStripped ==
    /\ \A u \in users :
          /\ u[HashField(variant)] = BcryptHash(PasswordOf(u.email), 12)
          /\ u[HashField(variant)] # PasswordOf(u.email)
    /\ \A i \in ReqIds :
          \A n \in 1..Len(req[i].calls) :
             req[i].calls[n] = "create" =>
                \E m \in 1..(n - 1) : req[i].calls[m] = "bcrypt.hash"
    /\ \A i \in ReqIds :
          req[i].response.status = 201 =>
             LET user == req[i].response.user IN
             /\ DOMAIN user \cap HashFieldNames = {}
             /\ \A f \in DOMAIN user \cap TextFieldNames :
                   user[f] # req[i].body.password
             /\ user.email = req[i].body.email

C6_Witness ==
    \E i \in ReqIds :
       /\ req[i].response.status = 201
       /\ req[i].response.user.email = "a@b.com"
       /\ \E u \in users :
             /\ u.id = req[i].response.user.id
             /\ u[HashField(variant)] = BcryptHash("Secret123!", 12)

ConfigMissingMessages ==
    {"Supabase configuration missing", "Supabase anon key missing",
     "Database configuration missing"}

\* C7: when a setting the handler requires is absent from the environment,
\* every request that has arrived has returned 500 with a configuration-
\* missing message and has made no call at all: no parse, no validation, no
\* storage call, no email; the table and the outbox stay empty.
C7_MissingConfigFailsFast ==
    ~(RequiredEnv(variant) \subseteq env) =>
       /\ users = {}
       /\ outbox = {}
       /\ \A i \in ReqIds :
             req[i].pc # "idle" =>
                /\ req[i].pc = "done"
                /\ req[i].response.status = 500
                /\ req[i].response.message \in ConfigMissingMessages
                /\ req[i].calls = <<>>

C7_Witness ==
    /\ "SUPABASE_ANON_KEY" \notin env
    /\ "SUPABASE_URL" \in env
    /\ variant = "supabase"
    /\ \E i \in ReqIds :
          /\ req[i].body \in ValidBodies
          /\ req[i].pc = "done"
          /\ req[i].response.message = "Supabase anon key missing"

RowVerifiedStatus(u) ==
    IF variant = "supabase" THEN u.verified_status ELSE u.verifiedStatus

RowEmailVerified(u) ==
    IF variant = "supabase" THEN u.email_verified ELSE u.emailVerified

\* C8: every stored row has verifiedStatus false exactly when its role is
\* agent, and emailVerified false.
C8_VerificationFlags ==
    \A u \in users :
       /\ RowVerifiedStatus(u) = (u.role # "agent")
       /\ RowEmailVerified(u) = FALSE

C8_Witness ==
    /\ \E u \in users : u.role = "agent" /\ ~RowVerifiedStatus(u)
    /\ \E u \in users : u.role = "buyer" /\ RowVerifiedStatus(u)

Digits == {"0", "1", "2", "3", "4", "5", "6", "7", "8", "9"}

DigitValue(c) == CHOOSE d \in 0..9 : DigitChar(d) = c

RECURSIVE DigitsValue(_)
\* The number a sequence of decimal digits writes.
DigitsValue(seq) ==
    IF seq = <<>> THEN 0
    ELSE 10 * DigitsValue(SubSeq(seq, 1, Len(seq) - 1)) + DigitValue(Last(seq))

IsSixDigits(code) == Len(code) = 6 /\ \A n \in 1..6 : code[n] \in Digits

FifteenMinutes == 15 * 60 * 1000

\* C9 as claimed: the code is six decimal digits spanning 000000-999999 (the
\* least draw of the generator gives 000000, the greatest 999999), and the
\* expiry is 15 minutes after issuance.
C9_CodeSpansSixDigitRange ==
    \A i \in ReqIds :
       req[i].pc = "update" =>
          /\ IsSixDigits(req[i].verificationCode)
          /\ req[i].draw = 0 => DigitsValue(req[i].verificationCode) = 0
          /\ req[i].draw = 999999 =>
                DigitsValue(req[i].verificationCode) = 999999
          /\ req[i].expiresAt = req[i].issuedAt + FifteenMinutes

\* C9 amended: the code is six decimal digits spanning 100000-999999 (the
\* least draw gives 100000, the greatest 999999, so it never starts with 0),
\* the expiry is 15 minutes after issuance, and what a row stores is such a
\* code with such an expiry.
C9_CodeSpans100000To999999 ==
    /\ \A i \in ReqIds :
          req[i].pc = "update" =>
             /\ IsSixDigits(req[i].verificationCode)
             /\ DigitsValue(req[i].verificationCode) \in 100000..999999
             /\ req[i].draw = 0 =>
                   DigitsValue(req[i].verificationCode) = 100000
             /\ req[i].draw = 999999 =>
                   DigitsValue(req[i].verificationCode) = 999999
             /\ req[i].expiresAt = req[i].issuedAt + FifteenMinutes
    /\ variant = "supabase" =>
          \A u \in users :
             \/ /\ u.verification_code = Null
                /\ u.verification_code_expires = Null
             \/ /\ IsSixDigits(u.verification_code)
                /\ DigitsValue(u.verification_code) \in 100000..999999
                /\ \E now \in Times :
                      u.verification_code_expires = <<now + FifteenMinutes>>

C9_Witness ==
    /\ \E i \in ReqIds :
          /\ req[i].pc = "update"
          /\ req[i].verificationCode = <<"1", "0", "0", "0", "0", "0">>
          /\ req[i].issuedAt = 60000
          /\ req[i].expiresAt = 960000
    /\ \E u \in users :
          /\ u.verification_code = <<"9", "9", "9", "9", "9", "9">>
          /\ u.verification_code_expires = <<900000>>

IsPrefix(s, t) ==
    /\ Len(s) <= Len(t)
    /\ \A n \in 1..Len(s) : s[n] = t[n]

SupabaseOrder == <<"findByEmail", "create", "update", "sendEmail">>

DrizzleOrder == <<"db.select", "findByEmail", "create">>

\* What holds of a request in either variant: it inserts only after a lookup
\* that found nothing, it updates and sends only after its insert
\* succeeded, and the update it awaits is addressed to the row it inserted,
\* whose verification columns no other request has written.
OrderedAfterInsert(r) ==
    /\ "create" \in Range(r.calls) => ~r.found
    /\ Range(r.calls) \cap {"update", "sendEmail"} # {} => Inserted(r)
    /\ r.pc = "update" =>
          \E u \in users :
             /\ u.id = r.newUser.id
             /\ u.email = r.data.email
             /\ u.verification_code = Null

\* C10 as claimed: a request's storage and mail calls are a prefix of
\* lookup, insert, update, send, each made at most once; a request that
\* returned 201 made all four.
C10_LookupInsertUpdateSend ==
    \A i \in ReqIds :
       /\ IsPrefix(Operations(req[i]), SupabaseOrder)
       /\ req[i].response.status = 201 =>
             Operations(req[i]) = SupabaseOrder
       /\ OrderedAfterInsert(req[i])

\* C10 amended: that holds of part_000.  In route.ts a request's calls are a
\* prefix of connection test, lookup, insert, each made at most once; a
\* request that returned 201 made these three, and made no update and sent
\* no email.
C10_OrderPerVariant ==
    \A i \in ReqIds :
       LET order == IF variant = "supabase" THEN SupabaseOrder
                    ELSE DrizzleOrder IN
       /\ IsPrefix(Operations(req[i]), order)
       /\ req[i].response.status = 201 => Operations(req[i]) = order
       /\ OrderedAfterInsert(req[i])

C10_Witness ==
    /\ variant = "supabase"
    /\ Cardinality(users) = 2
    /\ \E i \in ReqIds :
          /\ req[i].response.status = 201
          /\ Operations(req[i]) = SupabaseOrder
          /\ \E u \in users :
                /\ u.id = req[i].response.user.id
                /\ u.verification_code # Null
          /\ \E u \in users :
                /\ u.id # req[i].response.user.id
                /\ u.verification_code = Null

====
